---- MODULE Spec2Model ----
(***************************************************************************)
(* Docs-Extractor: the job-tracking HTTP API of the extraction server      *)
(* (POST /api/extract, GET /api/job/:jobId) and the background extraction  *)
(* task it launches (DocsExtractorAgent.create / extract / cleanup).       *)
(*                                                                         *)
(* Atomicity follows the JavaScript event loop: an action is one           *)
(* synchronous run of code between two awaits.  A handler "returns" when   *)
(* its code sets ctx.response.body and falls off its end.                  *)
(***************************************************************************)
EXTENDS Integers, Sequences, FiniteSets, TLC

VARIABLES jobs, task, conn, files, crashed, returned, terminalSeen, writes,
          browser

vars == <<jobs, task, conn, files, crashed, returned, terminalSeen, writes,
          browser>>

----------------------------------------------------------------------------
(* Bounds *)

MaxJobs == 2        \* submissions accepted in one run
MaxEvents == 1      \* events one runTask stream delivers before it ends

Clients == {"c1"}                \* HTTP connections in flight at once
Ids == 1 .. (MaxJobs + 1)        \* identifiers; one more than can be issued

----------------------------------------------------------------------------
(* JavaScript values of the request payload and their truthiness *)

Undefined == [t |-> "undefined", v |-> ""]
Str(s) == [t |-> "string", v |-> s]

Truthy(x) == x.t = "string" /\ x.v /= ""

\* What ctx.request.body.json() can deliver: a rejection (text that is not
\* JSON, or no body), the JSON value null, or a JSON object.
Body(json, docsUrl, extractionType) ==
    [json |-> json, docsUrl |-> docsUrl, extractionType |-> extractionType]

Bodies ==
    {Body("invalid", Undefined, Undefined),
     Body("null", Undefined, Undefined),
     Body("object", Undefined, Undefined),
     Body("object", Str("https://example.com"), Undefined),
     Body("object", Str(""), Str("overview")),
     Body("object", Str("https://example.com"), Str("overview"))}

NoBody == Body("none", Undefined, Undefined)

----------------------------------------------------------------------------
(* Thrown values and their conversion to a string.  A JavaScript string is  *)
(* a sequence of pieces, so that concatenation is \o.                       *)

Err(m) == [kind |-> "Error", payload |-> m]

NoThrow == [kind |-> "none", payload |-> <<>>]

\* What the external collaborators (zypher context, MCP, runTask) can throw:
\* an Error or something that is not one (here a plain object).
Thrown == {Err(<<"boom">>), [kind |-> "object", payload |-> <<>>]}

getRequiredEnvError(name) ==
    Err(<<"Environment variable ", name, " is not set">>)

String(e) ==
    CASE e.kind = "string" -> e.payload
      [] e.kind = "object" -> <<"[object Object]">>
      [] e.kind = "Error" -> <<"Error: ">> \o e.payload
      [] OTHER -> <<"undefined">>

ErrorMessage(e) == IF e.kind = "Error" THEN e.payload ELSE String(e)

----------------------------------------------------------------------------
(* Job records and the jobs map *)

\* An initial record that already carries an (empty) error.
ProcessingRecordWithError == [status |-> "processing", error |-> <<>>]

ProcessingRecord == [status |-> "processing"]

\* A completion that also records an (empty) error.
CompletedRecordWithError(result) ==
    [status |-> "completed", result |-> result, error |-> <<>>]

\* A completion that stores only the response and drops the tool uses.
CompletedRecordResponseOnly(result) ==
    [status |-> "completed",
     result |-> [response |-> result.response, toolUses |-> <<>>]]

CompletedRecord(result) == [status |-> "completed", result |-> result]

FailedRecord(error) == [status |-> "failed", error |-> ErrorMessage(error)]

MapSet(m, k, val) == [x \in (DOMAIN m) \cup {k} |-> IF x = k THEN val ELSE m[x]]

\* crypto.randomUUID(): a version-4 UUID, taken as never repeating.  The
\* code only compares identifiers for equality, so the least unused one
\* stands for any fresh one.
randomUUID == {i \in Ids \ DOMAIN jobs : \A k \in Ids \ DOMAIN jobs : i <= k}

----------------------------------------------------------------------------
(* HTTP responses *)

NoResponse == [code |-> 0, body |-> [none |-> TRUE]]

Response(code, body) == [code |-> code, body |-> body]

MissingFields == <<"Missing required fields: docsUrl, extractionType">>

\* The message of the error the handler's catch reports with status 500.
ApiErrorMessage(body) ==
    IF body.json = "invalid"
    THEN <<"Unexpected end of JSON input">>
    ELSE <<"Cannot destructure property 'docsUrl' of 'body' as it is null.">>

IdleConn == [pc |-> "idle", method |-> "", body |-> NoBody, id |-> 0,
             response |-> NoResponse]

----------------------------------------------------------------------------
(* The background task: the async closure of the POST handler, with the     *)
(* locals of DocsExtractorAgent.create and DocsExtractorAgent.extract.      *)

NoResult == [response |-> [content |-> <<>>], toolUses |-> <<>>]

NewTask(jobId, docsUrl, extractionType) ==
    [pc |-> "createZypherContext", jobId |-> jobId, docsUrl |-> docsUrl,
     extractionType |-> extractionType, responseText |-> <<>>,
     toolUses |-> <<>>, nEvents |-> 0, thrown |-> NoThrow,
     result |-> NoResult]

\* The state of the browser App component: useState values of lines 24-27.
JsNull == [null |-> TRUE, v |-> <<>>]

JsStr(v) == [null |-> FALSE, v |-> v]

NewApp == [loading |-> FALSE, jobId |-> 0, result |-> JsNull, error |-> JsNull]

Init ==
    /\ jobs = <<>>
    /\ task = <<>>
    /\ conn = [c \in Clients |-> IdleConn]
    /\ files = {}
    /\ crashed = FALSE
    /\ returned = {}
    /\ terminalSeen = <<>>
    /\ writes = <<>>
    /\ browser = NewApp

----------------------------------------------------------------------------
(* POST /api/extract *)

ValidBody(body) ==
    body.json = "object" /\ Truthy(body.docsUrl) /\ Truthy(body.extractionType)

\* Closures are numbered in the order they are started; as long as
\* identifiers do not repeat, a closure's number is its job's identifier.
NextClosure == Cardinality(DOMAIN task) + 1

InFlight == {c \in Clients : conn[c].pc = "parsing" /\ ValidBody(conn[c].body)}

\* The request reaches the handler, which awaits ctx.request.body.json().
Receive(c, body) ==
    /\ UNCHANGED browser
    /\ ~crashed
    /\ conn[c].pc = "idle"
    /\ ValidBody(body) =>
           Cardinality(DOMAIN task) + Cardinality(InFlight) < MaxJobs
    /\ conn' = [conn EXCEPT ![c] = [pc |-> "parsing", method |-> "POST",
                                    body |-> body, id |-> 0,
                                    response |-> NoResponse]]
    /\ UNCHANGED <<jobs, task, files, crashed, returned, terminalSeen,
                   writes>>

\* The two ways the handler answers without creating a job: its catch block
\* (body.json() rejected, or the destructuring of a null body threw) and the
\* required-fields check.
SubmitReject(c) ==
    /\ conn' = [conn EXCEPT ![c].pc = "responded",
           ![c].response =
               IF conn[c].body.json # "object"
               THEN Response(500, [error |-> ApiErrorMessage(conn[c].body)])
               ELSE Response(400, [error |-> MissingFields])]
    /\ UNCHANGED <<jobs, task, returned, writes>>

\* jobs.set(jobId, processing) and the start of the background closure,
\* which runs to its first await, inside DocsExtractorAgent.create.
Launch(c, jobId) ==
    /\ jobs' = MapSet(jobs, jobId, ProcessingRecord)
    /\ task' = MapSet(task, NextClosure,
                      NewTask(jobId, conn[c].body.docsUrl,
                              conn[c].body.extractionType))
    /\ writes' = MapSet(writes, jobId, 0)

Respond(c, jobId) ==
    /\ returned' = returned \cup {jobId}
    /\ conn' = [conn EXCEPT ![c].pc = "responded", ![c].id = 0,
           ![c].response =
               Response(200, [jobId |-> jobId, status |-> "processing"])]

\* A handler that awaits the closure it started before it answers.
SubmitHandleAwaiting(c) ==
    /\ UNCHANGED browser
    /\ ~crashed
    /\ \/ /\ conn[c].pc = "parsing"
          /\ IF ~ValidBody(conn[c].body)
             THEN SubmitReject(c)
             ELSE \E jobId \in randomUUID :
                      /\ Launch(c, jobId)
                      /\ conn' = [conn EXCEPT ![c].pc = "awaiting",
                                              ![c].id = jobId]
                      /\ UNCHANGED returned
       \/ /\ conn[c].pc = "awaiting"
          /\ task[conn[c].id].pc = "done"
          /\ Respond(c, conn[c].id)
          /\ UNCHANGED <<jobs, task, writes>>
    /\ UNCHANGED <<files, crashed, terminalSeen>>

\* The handler from the resolution of body.json() to its end, in one run:
\* the destructuring, the validation, jobs.set, the start of the closure and
\* the response.
SubmitHandle(c) ==
    /\ UNCHANGED browser
    /\ ~crashed
    /\ conn[c].pc = "parsing"
    /\ IF conn[c].body.json # "object"
       THEN SubmitReject(c)
       ELSE IF ~Truthy(conn[c].body.docsUrl)
               \/ ~Truthy(conn[c].body.extractionType)
            THEN SubmitReject(c)
            ELSE \E jobId \in randomUUID :
                     Launch(c, jobId) /\ Respond(c, jobId)
    /\ UNCHANGED <<files, crashed, terminalSeen>>

\* The same handler when crypto.randomUUID() is allowed to return an
\* identifier it has returned before.
SubmitHandleRepeat(c) ==
    /\ UNCHANGED browser
    /\ ~crashed
    /\ conn[c].pc = "parsing"
    /\ IF conn[c].body.json # "object"
       THEN SubmitReject(c)
       ELSE IF ~Truthy(conn[c].body.docsUrl)
               \/ ~Truthy(conn[c].body.extractionType)
            THEN SubmitReject(c)
            ELSE \E jobId \in Ids :
                     Launch(c, jobId) /\ Respond(c, jobId)
    /\ UNCHANGED <<files, crashed, terminalSeen>>

----------------------------------------------------------------------------
(* GET /api/job/:jobId *)

\* A lookup that reports an unknown job as still processing.
StatusResponseUnknownProcessing(m, jobId) ==
    IF jobId \notin DOMAIN m
    THEN Response(200, [status |-> "processing"])
    ELSE Response(200, m[jobId])

StatusResponse(m, jobId) ==
    IF jobId \notin DOMAIN m
    THEN Response(404, [error |-> <<"Job not found">>])
    ELSE Response(200, m[jobId])

IsTerminal(job) == job.status \in {"completed", "failed"}

NextSeen(jobId) ==
    IF jobId \in DOMAIN terminalSeen
    THEN [terminalSeen EXCEPT ![jobId].again = TRUE]
    ELSE IF jobId \in DOMAIN jobs /\ IsTerminal(jobs[jobId])
         THEN MapSet(terminalSeen, jobId,
                     [snapshot |-> jobs[jobId], again |-> FALSE])
         ELSE terminalSeen

\* A handler that resets a terminal job once its outcome has been served.
StatusResetOnRead(c, jobId) ==
    /\ UNCHANGED browser
    /\ ~crashed
    /\ conn[c].pc = "idle"
    /\ conn' = [conn EXCEPT ![c] = [pc |-> "responded", method |-> "GET",
                                    body |-> NoBody, id |-> jobId,
                                    response |-> StatusResponse(jobs, jobId)]]
    /\ terminalSeen' = NextSeen(jobId)
    /\ jobs' = IF jobId \in DOMAIN jobs /\ IsTerminal(jobs[jobId])
               THEN [jobs EXCEPT ![jobId] = ProcessingRecord]
               ELSE jobs
    /\ UNCHANGED <<task, files, crashed, returned, writes>>

\* A handler that drops a terminal job once its outcome has been served.
StatusDeleteOnRead(c, jobId) ==
    /\ UNCHANGED browser
    /\ ~crashed
    /\ conn[c].pc = "idle"
    /\ conn' = [conn EXCEPT ![c] = [pc |-> "responded", method |-> "GET",
                                    body |-> NoBody, id |-> jobId,
                                    response |-> StatusResponse(jobs, jobId)]]
    /\ terminalSeen' = NextSeen(jobId)
    /\ jobs' = IF jobId \in DOMAIN jobs /\ IsTerminal(jobs[jobId])
               THEN [x \in DOMAIN jobs \ {jobId} |-> jobs[x]]
               ELSE jobs
    /\ UNCHANGED <<task, files, crashed, returned, writes>>

\* A handler that registers an unknown id as a processing job (get-or-create).
StatusCreateOnMiss(c, jobId) ==
    /\ UNCHANGED browser
    /\ ~crashed
    /\ conn[c].pc = "idle"
    /\ conn' = [conn EXCEPT ![c] = [pc |-> "responded", method |-> "GET",
                                    body |-> NoBody, id |-> jobId,
                                    response |-> StatusResponse(jobs, jobId)]]
    /\ terminalSeen' = NextSeen(jobId)
    /\ jobs' = IF jobId \in DOMAIN jobs THEN jobs
               ELSE MapSet(jobs, jobId, ProcessingRecord)
    /\ UNCHANGED <<task, files, crashed, returned, writes>>

Status(c, jobId) ==
    /\ UNCHANGED browser
    /\ ~crashed
    /\ conn[c].pc = "idle"
    /\ conn' = [conn EXCEPT ![c] = [pc |-> "responded", method |-> "GET",
                                    body |-> NoBody, id |-> jobId,
                                    response |-> StatusResponse(jobs, jobId)]]
    /\ terminalSeen' = NextSeen(jobId)
    /\ UNCHANGED <<jobs, task, files, crashed, returned, writes>>

\* The caller has read the response; the connection is free again.
Consume(c) ==
    /\ UNCHANGED browser
    /\ conn[c].pc = "responded"
    /\ conn' = [conn EXCEPT ![c] = IdleConn]
    /\ UNCHANGED <<jobs, task, files, crashed, returned, terminalSeen,
                   writes>>

----------------------------------------------------------------------------
(* Events of the zypher.runTask stream and how extract folds them *)

Ev(type, ckind, text, cname, tool, input) ==
    [type |-> type, ckind |-> ckind, text |-> text, cname |-> cname,
     tool |-> tool, input |-> input]

\* ckind is typeof event.content ("object", "string" or "none" for absent);
\* text is content.text of an object content or the string content itself;
\* cname is content.name; tool is event.tool || event.name.
Events ==
    {Ev("text", "object", "# Title", "", "", ""),
     Ev("message", "string", "", "", "", ""),
     Ev("tool_use", "object", "", "firecrawl_scrape", "", "url"),
     Ev("tool_result", "string", "ok", "", "", "")}

Concat(s, piece) == IF piece = "" THEN s ELSE Append(s, piece)

FoldText(responseText, ev) ==
    IF ev.type \in {"text", "message"}
    THEN IF ev.ckind = "object" /\ ev.text # ""
         THEN Concat(responseText, ev.text)
         ELSE IF ev.ckind = "string"
              THEN Concat(responseText, ev.text)
              ELSE responseText
    ELSE responseText

FoldTools(toolUses, ev) ==
    IF ev.type \in {"tool_use", "tool_use_input"}
    THEN IF ev.ckind = "object" /\ ev.cname # ""
         THEN Append(toolUses, [name |-> ev.cname, input |-> ev.input])
         ELSE IF ev.tool # ""
              THEN Append(toolUses,
                          [name |-> ev.tool,
                           input |-> IF ev.input # "" THEN ev.input
                                     ELSE ev.text])
              ELSE toolUses
    ELSE toolUses

ExtractResult(responseText, toolUses) ==
    [response |-> [content |-> <<[type |-> "text", text |-> responseText]>>],
     toolUses |-> toolUses]

----------------------------------------------------------------------------
(* The background closure, one action per run between awaits *)

\* A try block that starts only after the agent has been created.
TryAfterCreate(pc) ==
    pc \in {"runTask", "writeTextFile", "extracted", "cleanup"}

\* The awaits of the closure that lie inside its try block.
TryCovers(pc) ==
    pc \in {"createZypherContext", "registerServer", "runTask",
            "writeTextFile", "extracted", "cleanup"}

\* A jobId shared by all closures: the one of the latest submission.
LatestJobId(id) == CHOOSE j \in DOMAIN jobs : \A k \in DOMAIN jobs : k <= j

\* The jobId the closure captured from the handler that started it.
OwnJobId(id) == task[id].jobId

\* A cleanup that can fail.
cleanupThrows == {NoThrow} \cup Thrown

\* What agent.cleanup() can do: its body is empty, it only returns.
cleanup == {NoThrow}

\* A value thrown in the closure: the catch block, or an unhandled
\* rejection, which ends the Deno process.
Throw(id, e) ==
    /\ task' = [task EXCEPT ![id].pc = "done", ![id].thrown = e]
    /\ IF TryCovers(task[id].pc)
       THEN /\ jobs' = MapSet(jobs, OwnJobId(id), FailedRecord(e))
            /\ writes' = [writes EXCEPT ![OwnJobId(id)] = @ + 1]
            /\ UNCHANGED crashed
       ELSE /\ crashed' = TRUE
            /\ UNCHANGED <<jobs, writes>>

Goto(id, pc) ==
    /\ task' = [task EXCEPT ![id].pc = pc]
    /\ UNCHANGED <<jobs, writes, crashed>>

Running(id, pc) == ~crashed /\ id \in DOMAIN task /\ task[id].pc = pc

\* The environment variables the process may have been started with.
Env == [{"ANTHROPIC_API_KEY", "FIRECRAWL_API_KEY"} -> BOOLEAN]

\* createZypherContext settles; on success create goes on to the model
\* provider (ANTHROPIC_API_KEY) and to the Firecrawl registration.
BgContext(id, env) ==
    /\ UNCHANGED browser
    /\ Running(id, "createZypherContext")
    /\ \/ \E e \in Thrown : Throw(id, e)
       \/ IF ~env["ANTHROPIC_API_KEY"]
          THEN Throw(id, getRequiredEnvError("ANTHROPIC_API_KEY"))
          ELSE IF ~env["FIRECRAWL_API_KEY"]
               THEN Goto(id, "runTask")
               ELSE Goto(id, "registerServer")
    /\ UNCHANGED <<conn, files, returned, terminalSeen>>

\* agent.mcp.registerServer settles; a rejection is logged and dropped.
BgRegister(id) ==
    /\ UNCHANGED browser
    /\ Running(id, "registerServer")
    /\ Goto(id, "runTask")
    /\ UNCHANGED <<conn, files, returned, terminalSeen>>

BgEvent(id, ev) ==
    /\ UNCHANGED browser
    /\ Running(id, "runTask")
    /\ task[id].nEvents < MaxEvents
    /\ task' = [task EXCEPT
                   ![id].responseText = FoldText(@, ev),
                   ![id].toolUses = FoldTools(@, ev),
                   ![id].nEvents = @ + 1]
    /\ UNCHANGED <<jobs, conn, files, crashed, returned, terminalSeen,
                   writes>>

BgStreamError(id, e) ==
    /\ UNCHANGED browser
    /\ Running(id, "runTask")
    /\ Throw(id, e)
    /\ UNCHANGED <<conn, files, returned, terminalSeen>>

\* The stream completes: extract saves the text if there is any.
BgStreamEnd(id) ==
    /\ UNCHANGED browser
    /\ Running(id, "runTask")
    /\ IF task[id].responseText # <<>>
       THEN task' = [task EXCEPT ![id].pc = "writeTextFile"]
       ELSE task' = [task EXCEPT ![id].pc = "extracted",
                        ![id].result =
                            ExtractResult(task[id].responseText,
                                          task[id].toolUses)]
    /\ UNCHANGED <<jobs, conn, files, crashed, returned, terminalSeen,
                   writes>>

\* A save whose failure is not caught inside extract.
BgWriteFileThrows(id, ok) ==
    /\ UNCHANGED browser
    /\ Running(id, "writeTextFile")
    /\ IF ok
       THEN /\ files' = files \cup {task[id].responseText}
            /\ task' = [task EXCEPT ![id].pc = "extracted",
                           ![id].result =
                               ExtractResult(task[id].responseText,
                                             task[id].toolUses)]
            /\ UNCHANGED <<jobs, crashed, writes>>
       ELSE /\ Throw(id, Err(<<"EACCES">>))
            /\ UNCHANGED files
    /\ UNCHANGED <<conn, returned, terminalSeen>>

\* Deno.writeTextFile settles; a rejection is logged and dropped.
BgWriteFile(id, ok) ==
    /\ UNCHANGED browser
    /\ Running(id, "writeTextFile")
    /\ files' = IF ok THEN files \cup {task[id].responseText} ELSE files
    /\ task' = [task EXCEPT ![id].pc = "extracted",
                   ![id].result =
                       ExtractResult(task[id].responseText,
                                     task[id].toolUses)]
    /\ UNCHANGED <<jobs, conn, crashed, returned, terminalSeen, writes>>

\* extract has returned: jobs.set(completed), then the call of cleanup.
BgComplete(id) ==
    /\ UNCHANGED browser
    /\ Running(id, "extracted")
    /\ jobs' = MapSet(jobs, OwnJobId(id), CompletedRecord(task[id].result))
    /\ writes' = [writes EXCEPT ![OwnJobId(id)] = @ + 1]
    /\ task' = [task EXCEPT ![id].pc = "cleanup"]
    /\ UNCHANGED <<conn, files, crashed, returned, terminalSeen>>

BgCleanup(id) ==
    /\ UNCHANGED browser
    /\ Running(id, "cleanup")
    /\ \E out \in cleanup :
           IF out = NoThrow THEN Goto(id, "done") ELSE Throw(id, out)
    /\ UNCHANGED <<conn, files, returned, terminalSeen>>

Background(id) ==
    \/ \E env \in Env : BgContext(id, env)
    \/ BgRegister(id)
    \/ \E ev \in Events : BgEvent(id, ev)
    \/ \E e \in Thrown : BgStreamError(id, e)
    \/ BgStreamEnd(id)
    \/ \E ok \in BOOLEAN : BgWriteFile(id, ok)
    \/ BgComplete(id)
    \/ BgCleanup(id)

----------------------------------------------------------------------------

Next ==
    \/ \E c \in Clients, body \in Bodies : Receive(c, body)
    \/ \E c \in Clients : SubmitHandle(c)
    \/ \E c \in Clients, jobId \in Ids : Status(c, jobId)
    \/ \E c \in Clients : Consume(c)
    \/ \E id \in Ids : Background(id)

Spec == Init /\ [][Next]_vars

\* The server without the assumption that identifiers never repeat.
NextRepeat ==
    \/ \E c \in Clients, body \in Bodies : Receive(c, body)
    \/ \E c \in Clients : SubmitHandleRepeat(c)
    \/ \E c \in Clients, jobId \in Ids : Status(c, jobId)
    \/ \E c \in Clients : Consume(c)
    \/ \E id \in Ids : Background(id)

SpecRepeat == Init /\ [][NextRepeat]_vars

\* The handler continuation of a parsed request is run by the event loop;
\* nothing is assumed about the progress of any background closure.
SpecSubmit == Init /\ [][Next]_vars /\ \A c \in Clients : WF_vars(SubmitHandle(c))

\* Every continuation of a background closure is eventually run, and the
\* external operation it awaits eventually settles.
SpecFair == Init /\ [][Next]_vars /\ \A id \in Ids : WF_vars(Background(id))

----------------------------------------------------------------------------
(* The browser client: the App component, its submit handler and its        *)
(* polling effect.  Each run of client code between two awaits is one step; *)
(* the state updates of one run are applied together.                       *)

\* The connection of the submit handler's fetch and those of the polls.
\* The interval fires every two seconds whether or not the previous poll
\* has been answered, so polls overlap; two of them are followed.
PostConn == "post"

PollConns == {"poll1", "poll2"}

Conns == {PostConn} \cup PollConns

InitBrowser ==
    /\ jobs = <<>>
    /\ task = <<>>
    /\ conn = [c \in Conns |-> IdleConn]
    /\ files = {}
    /\ crashed = FALSE
    /\ returned = {}
    /\ terminalSeen = <<>>
    /\ writes = <<>>
    /\ browser = NewApp

\* The body the form sends: both inputs are required, so neither is empty.
FormBody == Body("object", Str("https://example.com"), Str("overview"))

\* handleSubmit up to its fetch.  The button is disabled while loading.
BrSubmit ==
    /\ ~browser.loading
    /\ conn[PostConn].pc = "idle"
    /\ Cardinality(DOMAIN task) < MaxJobs
    /\ browser' = [browser EXCEPT !.loading = TRUE, !.error = JsNull,
                                  !.result = JsNull]
    /\ conn' = [conn EXCEPT ![PostConn] =
                    [pc |-> "parsing", method |-> "POST", body |-> FormBody,
                     id |-> 0, response |-> NoResponse]]
    /\ UNCHANGED <<jobs, task, files, crashed, returned, terminalSeen,
                   writes>>

\* handleSubmit after its fetch was answered.
BrPostDone ==
    /\ conn[PostConn].pc = "responded"
    /\ browser' =
           IF conn[PostConn].response.code \in 200 .. 299
           THEN [browser EXCEPT !.jobId = conn[PostConn].response.body.jobId]
           ELSE [browser EXCEPT !.loading = FALSE,
                     !.error = JsStr(<<"Failed to start extraction">>)]
    /\ conn' = [conn EXCEPT ![PostConn] = IdleConn]
    /\ UNCHANGED <<jobs, task, files, crashed, returned, terminalSeen,
                   writes>>

\* The fetch of handleSubmit rejects: the catch block.
BrPostFail ==
    /\ conn[PostConn].pc \in {"parsing", "responded"}
    /\ browser' = [browser EXCEPT !.loading = FALSE,
                       !.error = JsStr(<<"Failed to fetch">>)]
    /\ conn' = [conn EXCEPT ![PostConn] = IdleConn]
    /\ UNCHANGED <<jobs, task, files, crashed, returned, terminalSeen,
                   writes>>

\* The interval of the polling effect fires: the callback fetches the job
\* the effect was set up for, and the server's GET handler answers.
BrTick(c) ==
    /\ browser.jobId # 0
    /\ ~crashed
    /\ conn[c].pc = "idle"
    /\ conn' = [conn EXCEPT ![c] =
                    [pc |-> "responded", method |-> "GET", body |-> NoBody,
                     id |-> browser.jobId,
                     response |-> StatusResponse(jobs, browser.jobId)]]
    /\ UNCHANGED <<jobs, task, files, crashed, returned, terminalSeen,
                   writes, browser>>

\* content.filter(item => item.type === 'text').map(item => item.text)
\*        .join('\n\n')
RECURSIVE TextContent(_)
TextContent(content) ==
    IF content = <<>> THEN <<>>
    ELSE LET rest == TextContent(Tail(content))
             texts == {i \in 1 .. Len(Tail(content)) :
                           Tail(content)[i].type = "text"}
         IN  IF Head(content).type # "text" THEN rest
             ELSE IF texts = {} THEN Head(content).text
             ELSE Head(content).text \o <<"\n\n">> \o rest

\* What the poll callback makes of the job it was answered with.
Polled(app, job) ==
    IF "status" \notin DOMAIN job THEN app
    ELSE IF job.status = "completed"
    THEN [app EXCEPT !.loading = FALSE,
                     !.result = JsStr(TextContent(job.result.response.content)),
                     !.jobId = 0]
    ELSE IF job.status = "failed"
    THEN [app EXCEPT !.loading = FALSE,
                     !.error = JsStr(IF job.error # <<>> THEN job.error
                                     ELSE <<"Extraction failed">>),
                     !.jobId = 0]
    ELSE app

\* The poll callback after its fetch was answered.
BrPollDone(c) ==
    /\ conn[c].pc = "responded"
    /\ browser' = Polled(browser, conn[c].response.body)
    /\ conn' = [conn EXCEPT ![c] = IdleConn]
    /\ UNCHANGED <<jobs, task, files, crashed, returned, terminalSeen,
                   writes>>

\* One browser client and the server.
NextBrowser ==
    \/ BrSubmit
    \/ SubmitHandle(PostConn)
    \/ BrPostDone
    \/ BrPostFail
    \/ \E c \in PollConns : BrTick(c)
    \/ \E c \in PollConns : BrPollDone(c)
    \/ \E id \in Ids : Background(id)

SpecBrowser == InitBrowser /\ [][NextBrowser]_vars

\* The server answers the submit, the interval keeps firing and every poll
\* is answered and its callback run.
SpecBrowserFair ==
    /\ InitBrowser /\ [][NextBrowser]_vars
    /\ WF_vars(SubmitHandle(PostConn))
    /\ WF_vars(BrPostDone)
    /\ \A c \in PollConns : WF_vars(BrTick(c)) /\ WF_vars(BrPollDone(c))

----------------------------------------------------------------------------
(* Steps in which a handler returns *)

SubmitReturned(c) ==
    /\ conn[c].response = NoResponse
    /\ conn'[c].response # NoResponse
    /\ conn'[c].method = "POST"

StatusReturned(c, jobId) ==
    /\ conn[c].response = NoResponse
    /\ conn'[c].response # NoResponse
    /\ conn'[c].method = "GET"
    /\ conn'[c].id = jobId

Unfinished(t) == t.pc # "done"

----------------------------------------------------------------------------
(* C1 *)

\* C1: a valid POST /api/extract is answered (job id, status processing)
\* without waiting for the background operation: whatever the background
\* closures do, even if none of them ever takes a step, every parsed request
\* is answered; and in the step that answers a valid one the job record has
\* just been created as processing and its closure has not finished.
C1_SubmitDoesNotWait ==
    /\ \A c \in Clients : (conn[c].pc = "parsing") ~> (conn[c].pc = "responded")
    /\ [][\A c \in Clients :
            (SubmitReturned(c) /\ ValidBody(conn[c].body)) =>
                /\ conn'[c].response.code = 200
                /\ conn'[c].response.body.status = "processing"
                /\ conn'[c].response.body.jobId \notin DOMAIN jobs
                /\ conn'[c].response.body.jobId \in DOMAIN jobs'
                /\ jobs'[conn'[c].response.body.jobId].status = "processing"
                /\ Unfinished(task'[conn'[c].response.body.jobId])]_vars

C1_Witness ==
    \E c \in Clients :
        /\ conn[c].method = "POST"
        /\ conn[c].response.code = 200
        /\ task[conn[c].response.body.jobId].pc = "createZypherContext"
        /\ jobs[conn[c].response.body.jobId].status = "processing"

----------------------------------------------------------------------------
(* C2 *)

\* C2: the stored status of a job only ever changes from processing to
\* completed or from processing to failed; no step moves a completed or
\* failed record to another status, and no record disappears.
C2_StatusMonotonic ==
    [][\A id \in DOMAIN jobs :
          /\ id \in DOMAIN jobs'
          /\ jobs'[id].status # jobs[id].status =>
                 /\ jobs[id].status = "processing"
                 /\ jobs'[id].status \in {"completed", "failed"}]_vars

C2_Witness ==
    \E id \in DOMAIN jobs :
        /\ jobs[id].status = "completed"
        /\ task[id].pc = "done"

----------------------------------------------------------------------------
(* C3 *)

\* C3: when submit returns a job id the store holds for it a record with
\* status processing and neither result nor error, and a status call for
\* that id before any step of the job's background closure answers 200 with
\* exactly that record.
C3_FreshJobIsProcessing ==
    [][\A c \in Clients :
          /\ (SubmitReturned(c) /\ conn'[c].response.code = 200) =>
                 /\ conn'[c].response.body.jobId \in DOMAIN jobs'
                 /\ jobs'[conn'[c].response.body.jobId].status = "processing"
                 /\ DOMAIN jobs'[conn'[c].response.body.jobId] = {"status"}
          /\ \A id \in returned :
                 (StatusReturned(c, id) /\ task[id].pc = "createZypherContext")
                     => /\ conn'[c].response.code = 200
                        /\ conn'[c].response.body.status = "processing"
                        /\ DOMAIN conn'[c].response.body = {"status"}]_vars

C3_Witness ==
    \E c \in Clients :
        /\ conn[c].method = "GET"
        /\ conn[c].id \in returned
        /\ task[conn[c].id].pc = "createZypherContext"
        /\ conn[c].response = Response(200, [status |-> "processing"])

----------------------------------------------------------------------------
(* C4 *)

\* C4: under fair scheduling of the background closures, every submitted job
\* eventually has a terminal status with its closure finished and its record
\* written exactly once since creation; and at no time has a record been
\* written more than once since creation.
C4_JobTerminates ==
    /\ \A id \in Ids :
           (id \in DOMAIN jobs) ~>
               (/\ id \in DOMAIN jobs
                /\ IsTerminal(jobs[id])
                /\ task[id].pc = "done"
                /\ writes[id] = 1)
    /\ [](\A id \in DOMAIN writes : writes[id] <= 1)

C4_Witness ==
    \E id \in DOMAIN jobs :
        /\ jobs[id].status = "failed"
        /\ task[id].pc = "done"
        /\ writes[id] = 1

----------------------------------------------------------------------------
(* C5 *)

\* C5: whatever is thrown in a background closure is caught there: the
\* closure ends with its job's record failed and the error field holding the
\* thrown value as a string (the message of an Error, "[object Object]" for
\* a plain object); no rejection is left unhandled, and an idle connection
\* can still have a status request answered and a submission received.
C5_FailuresAreCaught ==
    /\ ~crashed
    /\ \A id \in DOMAIN task :
           task[id].thrown # NoThrow =>
               /\ task[id].pc = "done"
               /\ jobs[id].status = "failed"
               /\ task[id].thrown.kind = "Error" =>
                      jobs[id].error = task[id].thrown.payload
               /\ task[id].thrown.kind = "object" =>
                      jobs[id].error = <<"[object Object]">>
    /\ \A c \in Clients :
           conn[c].pc = "idle" =>
               /\ \A id \in Ids : ENABLED Status(c, id)
               /\ ENABLED Receive(c, Body("object", Undefined, Undefined))

C5_Witness ==
    \E c \in Clients, id \in DOMAIN task :
        /\ task[id].thrown.kind = "object"
        /\ conn[c].method = "GET"
        /\ conn[c].id = id
        /\ conn[c].response =
               Response(200, [status |-> "failed",
                              error |-> <<"[object Object]">>])

----------------------------------------------------------------------------
(* C6 *)

\* The outcome of a closure's own operation, as a job record.
OwnOutcome(t) ==
    IF t.thrown # NoThrow
    THEN [status |-> "failed", error |-> ErrorMessage(t.thrown)]
    ELSE [status |-> "completed", result |-> t.result]

\* C6: no submit returns an id an earlier submit returned; a step of one
\* job's background closure leaves the records of all other jobs as they
\* were; and a job's terminal record is the outcome of its own operation.
C6_JobsAreIndependent ==
    /\ [](\A id \in DOMAIN jobs :
             IsTerminal(jobs[id]) => jobs[id] = OwnOutcome(task[id]))
    /\ [][/\ \A c \in Clients :
               (SubmitReturned(c) /\ conn'[c].response.code = 200) =>
                   conn'[c].response.body.jobId \notin returned
          /\ \A id \in DOMAIN task :
               task'[id] # task[id] =>
                   \A k \in DOMAIN jobs \ {id} :
                       k \in DOMAIN jobs' /\ jobs'[k] = jobs[k]]_vars

C6_Witness ==
    \E i, k \in DOMAIN jobs :
        /\ i # k
        /\ jobs[i].status = "failed"
        /\ jobs[k].status = "completed"
        /\ jobs[k].result.response.content[1].text # <<>>
        /\ task[i].pc = "done"
        /\ task[k].pc = "done"

----------------------------------------------------------------------------
(* C7 *)

\* C7: every job record has neither result nor error while processing, a
\* result and no error when completed, an error and no result when failed.
C7_RecordShape ==
    \A id \in DOMAIN jobs :
        /\ jobs[id].status \in {"processing", "completed", "failed"}
        /\ jobs[id].status = "processing" =>
               DOMAIN jobs[id] \cap {"result", "error"} = {}
        /\ jobs[id].status = "completed" =>
               DOMAIN jobs[id] \cap {"result", "error"} = {"result"}
        /\ jobs[id].status = "failed" =>
               DOMAIN jobs[id] \cap {"result", "error"} = {"error"}

C7_Witness ==
    /\ \E id \in DOMAIN jobs : jobs[id].status = "processing"
    /\ \E id \in DOMAIN jobs : jobs[id].status = "completed"

----------------------------------------------------------------------------
(* C8 *)

\* C8: once a status call for an id has answered completed or failed, every
\* later status call for that id answers 200 with the same record (status
\* and result or error).
C8_TerminalReadIsStable ==
    [][\A c \in Clients : \A id \in DOMAIN terminalSeen :
          StatusReturned(c, id) =>
              conn'[c].response = Response(200, terminalSeen[id].snapshot)]_vars

C8_Witness ==
    \E c \in Clients, id \in DOMAIN terminalSeen :
        /\ terminalSeen[id].again
        /\ Cardinality(DOMAIN jobs) = 2
        /\ conn[c].method = "GET"
        /\ conn[c].id = id
        /\ conn[c].response = Response(200, terminalSeen[id].snapshot)

----------------------------------------------------------------------------
(* C9 *)

\* C9: every submission whose payload lacks docsUrl or extractionType is
\* answered with status 400 and the message naming the missing fields, and
\* the step creates no job record and starts no background closure.
C9_MissingFieldsAre400 ==
    [][\A c \in Clients :
          (SubmitReturned(c) /\ ~ValidBody(conn[c].body)) =>
              /\ conn'[c].response = Response(400, [error |-> MissingFields])
              /\ UNCHANGED <<jobs, task>>]_vars

----------------------------------------------------------------------------
(* C10 *)

\* C10: a status call for an id that no successful submit has returned is
\* answered 404 "Job not found", whatever jobs exist.
C10_UnknownIdIs404 ==
    [][\A c \in Clients : \A id \in Ids \ returned :
          StatusReturned(c, id) =>
              conn'[c].response =
                  Response(404, [error |-> <<"Job not found">>])]_vars

C10_Witness ==
    \E c \in Clients :
        /\ conn[c].method = "GET"
        /\ conn[c].id \notin returned
        /\ conn[c].response.code = 404
        /\ Cardinality(DOMAIN jobs) = 2
        /\ \E id \in DOMAIN jobs : IsTerminal(jobs[id])

----------------------------------------------------------------------------
(* C11 *)

\* C11: when extract returns r the closure stores the record
\* {status: completed, result: r} with r as extract built it (the text
\* accumulated from the stream and the tool uses), and a later status call
\* for the job answers 200 with exactly that record.
C11_ResultStoredVerbatim ==
    [][\A id \in DOMAIN task :
          /\ (task[id].pc = "extracted" /\ task'[id].pc # "extracted") =>
                 /\ jobs'[id] = [status |-> "completed",
                                 result |-> task[id].result]
                 /\ jobs'[id].result.response.content[1].text
                        = task[id].responseText
                 /\ jobs'[id].result.toolUses = task[id].toolUses
          /\ \A c \in Clients :
                 (StatusReturned(c, id) /\ task[id].pc \in {"cleanup", "done"}
                  /\ task[id].thrown = NoThrow) =>
                     conn'[c].response =
                         Response(200, [status |-> "completed",
                                        result |-> task[id].result])]_vars

C11_Witness ==
    \E c \in Clients, id \in DOMAIN task :
        /\ task[id].pc = "done"
        /\ task[id].toolUses # <<>>
        /\ conn[c].method = "GET"
        /\ conn[c].id = id
        /\ conn[c].response.code = 200
        /\ conn[c].response.body.status = "completed"
        /\ conn[c].response.body.result.toolUses = task[id].toolUses

----------------------------------------------------------------------------
(* C12 *)

\* C12: no step removes a job record, and a status call for an id that a
\* successful submit has returned never answers 404: it answers 200 with
\* the job's record, processing or terminal.
C12_RecordsAreKept ==
    [][/\ DOMAIN jobs \subseteq DOMAIN jobs'
       /\ \A c \in Clients : \A id \in returned :
              StatusReturned(c, id) =>
                  /\ conn'[c].response.code = 200
                  /\ conn'[c].response.body.status
                         \in {"processing", "completed", "failed"}]_vars

C12_Witness ==
    \E c \in Clients, id \in returned :
        /\ id \in DOMAIN terminalSeen
        /\ terminalSeen[id].again
        /\ \E k \in returned : jobs[k].status = "processing"
        /\ conn[c].method = "GET"
        /\ conn[c].id = id
        /\ conn[c].response.code = 200

----------------------------------------------------------------------------
(* C17 *)

\* C17: when the save of the markdown file fails, extract still returns its
\* result with the response text and nothing is thrown; when the response
\* text is empty extract writes no file and returns; and a closure whose
\* extract returned ends with its job completed with that response text.
C17_SaveFailureIsNotFatal ==
    /\ [][\A id \in DOMAIN task :
             /\ (task[id].pc = "writeTextFile" /\ task'[id] # task[id]) =>
                    /\ task'[id].pc = "extracted"
                    /\ task'[id].thrown = NoThrow
                    /\ task'[id].result.response.content[1].text
                           = task[id].responseText
                    /\ jobs' = jobs
             /\ (/\ task[id].pc = "runTask"
                 /\ task'[id].pc \notin {"runTask", "done"}
                 /\ task[id].responseText = <<>>) =>
                    /\ task'[id].pc = "extracted"
                    /\ files' = files]_vars
    /\ [](\A id \in DOMAIN task :
             (task[id].pc \in {"cleanup", "done"} /\ task[id].thrown = NoThrow)
                 => /\ jobs[id].status = "completed"
                    /\ jobs[id].result.response.content[1].text
                           = task[id].responseText)

\* A job with text whose save failed (nothing was written), completed; and
\* another with no text, completed.
C17_Witness ==
    /\ files = {}
    /\ \E id \in DOMAIN task :
           /\ task[id].pc = "done"
           /\ task[id].responseText # <<>>
           /\ jobs[id].status = "completed"
    /\ \E id \in DOMAIN task :
           /\ task[id].pc = "done"
           /\ task[id].responseText = <<>>
           /\ jobs[id].status = "completed"

----------------------------------------------------------------------------
(* C18 *)

\* C18: a status call, for a known or an unknown id, leaves the job store,
\* the background closures, the saved files and the process as they were.
C18_StatusIsPureRead ==
    [][\A c \in Clients : \A id \in Ids :
          StatusReturned(c, id) =>
              UNCHANGED <<jobs, task, files, writes, crashed, returned>>]_vars

C18_Witness ==
    /\ \E c \in Clients :
           /\ conn[c].method = "GET"
           /\ conn[c].response.code = 404
    /\ \E id \in DOMAIN terminalSeen : jobs[id].status = "failed"
    /\ \E id \in DOMAIN jobs : jobs[id].status = "processing"

----------------------------------------------------------------------------
(* C13 *)

\* C13: a completion or failure write of a background closure on a job
\* whose status is not processing leaves that job's record as it was.
C13_WriteNeedsProcessing ==
    [][\A id \in DOMAIN jobs :
          (/\ writes'[id] = writes[id] + 1
           /\ jobs[id].status # "processing") => jobs'[id] = jobs[id]]_vars

----------------------------------------------------------------------------
(* C14 *)

\* C14: a submit never creates a job under an identifier that is already in
\* the store: the step that answers a submit leaves every existing record
\* as it was and returns no identifier that was already there.
C14_CreateRejectsDuplicate ==
    [][\A c \in Clients :
          SubmitReturned(c) =>
              /\ \A id \in DOMAIN jobs : jobs'[id] = jobs[id]
              /\ conn'[c].response.code = 200 =>
                     conn'[c].response.body.jobId \notin DOMAIN jobs]_vars

\* C16: in every reachable state of the browser client a non-null jobId
\* implies that loading is true, a request of handleSubmit is outstanding
\* only while loading is true (a submit is issued only from loading false
\* and nothing lowers loading before it is settled, so the client never has
\* two jobs outstanding), and result and error are never both set.
C16_ClientStateInvariant ==
    /\ browser.jobId # 0 => browser.loading
    /\ conn[PostConn].pc # "idle" => browser.loading
    /\ ~(~browser.result.null /\ ~browser.error.null)

\* C15: once the job a client polls is terminal the client eventually stops
\* polling it; the step in which it stops polling job id is taken only when
\* that job is terminal (so a processing job keeps being polled), and it
\* resets jobId to null, sets loading to false and shows the result text of
\* that job when it completed or its error message when it failed.
C15_ClientFollowsItsJob ==
    /\ \A id \in Ids :
           (browser.jobId = id /\ id \in DOMAIN jobs /\ IsTerminal(jobs[id]))
               ~> (browser.jobId # id)
    /\ [][\A id \in Ids :
              (browser.jobId = id /\ browser'.jobId # id) =>
                  /\ id \in DOMAIN jobs
                  /\ IsTerminal(jobs[id])
                  /\ browser'.jobId = 0
                  /\ ~browser'.loading
                  /\ jobs[id].status = "completed" =>
                         browser'.result =
                             JsStr(TextContent(jobs[id].result.response.content))
                  /\ jobs[id].status = "failed" =>
                         /\ ~browser'.error.null
                         /\ jobs[id].error # <<>> =>
                                browser'.error = JsStr(jobs[id].error)]_vars

====
